---- MODULE Spec2Model ----
(***************************************************************************)
(* Model of the layer-shell status bar (src/window/wayland.rs).            *)
(*                                                                         *)
(* One thread owns the LayerState.  Protocol callbacks (configure, frame,  *)
(* closed, key presses, ...) are delivered only from inside                *)
(* event_queue.roundtrip() in new() and event_loop.dispatch() in run().    *)
(* LayerState::draw is modelled statement group by statement group,        *)
(* because the order of its effects is what several properties are about;  *)
(* while a draw cycle is in progress (dpc # "idle") nothing else can run.  *)
(*                                                                         *)
(* Spec is the session as a whole.  SpecOpts (configuration extraction),   *)
(* SpecSeat, SpecPointer, SpecInput (input handlers) and SpecCanvas (the   *)
(* draw callback's calls) run parts of the same program from the same      *)
(* initial state, each with the callbacks its properties are about.        *)
(***************************************************************************)
EXTENDS Integers, Sequences, FiniteSets, TLC

\* ---------------------------------------------------------------- bounds
MaxQueue == 2          \* longest event queue explored
MaxSlots == 2          \* buffers the pool can hand out at the same time
MaxSize == 1           \* largest size the compositor proposes
MaxConfigures == 2     \* configure notifications explored
MaxExitCalls == 2      \* calls of exit() before run()
MaxFrameLen == 2       \* pointer events in one pointer frame
MaxAnchor == 17        \* largest anchor bitmask a script supplies
MaxCalls == 2          \* Canvas method calls of the draw callbacks explored

\* ------------------------------------------------------ program constants
DefaultSize == 256     \* map_or(256, ..) in configure

Keys == {1}
Slots == 1..MaxSlots
NoSlot == 0
Sizes == 0..MaxSize

\* window::Modifiers::default()
DefaultModifiers == [control |-> FALSE, shift |-> FALSE, alt |-> FALSE, meta |-> FALSE]

\* window::Event (the variants the handlers modelled here produce)
ExitEvent == [type |-> "Exit"]
KeyboardKeyPressed(k) == [type |-> "KeyboardKeyPressed", key |-> k, modifiers |-> DefaultModifiers]
KeyboardKeyReleased(k) == [type |-> "KeyboardKeyReleased", key |-> k, modifiers |-> DefaultModifiers]

VARIABLES
  pc,               \* where the main thread is: start (in main), new, roundtrip (in new), ready, dispatch, drain, loop, done, panic
  dpc,              \* where LayerState::draw is; "idle" when no draw cycle is in progress
  should_exit,      \* LayerState.should_exit
  first_configure,  \* LayerState.first_configure
  width, height,    \* LayerState.width / height
  events,           \* LayerState.events
  tmp_events,       \* run()'s local batch
  pool,             \* LayerState.pool: slot -> buffer record
  surface,          \* pending (double-buffered) state of the wl_surface
  frameCallbacks,   \* frame callbacks requested and committed, not yet delivered
  local,            \* locals of the draw cycle in progress: buffer, width, height
  canvas,           \* the skia Canvas alive in the draw cycle (buf = NoSlot when none)
  lua,              \* the script state: which globals it defines
  conf,             \* the table the script's opts() returns
  opts,             \* the Opts extracted from it
  request,          \* what new() has set on the layer surface
  panicMsg,         \* message of the startup panic, "" when none
  seatCaps,         \* seat -> capabilities the compositor has announced for it
  keyboard,         \* LayerState.keyboard: the seat it was created from, NoSeat for None
  pointer,          \* LayerState.pointer, likewise
  keyboard_focus,   \* LayerState.keyboard_focus
  modifiers,        \* LayerState.modifiers
  liveInput,        \* input objects created and not released: <<kind, seat>>
  apiTrace,         \* Canvas methods the draw callbacks have called, in order
  apiError,         \* the method whose call raised a Lua error, "" when none
  \* history
  handled,          \* events passed to handle_event in this iteration of run()'s loop
  batch,            \* the batch swapped out in this iteration of run()'s loop
  closedDelivered,  \* closed() has been delivered
  nConfigure,       \* configure notifications delivered
  trigger,          \* what started the current / last draw cycle
  configureDraws,   \* draw cycles started by configure
  exitCalls,        \* calls of exit()
  queueAtExit,      \* the queue at the first call of exit()
  reported          \* the modifier state update_modifiers last reported

confState == <<conf, opts, request, panicMsg>>
inputState == <<seatCaps, keyboard, pointer, keyboard_focus, modifiers, liveInput, reported>>
apiState == <<apiTrace, apiError>>
rest == <<lua, confState, inputState, apiState>>
session == <<should_exit, first_configure, width, height>>
drawState == <<pool, surface, frameCallbacks, local, canvas>>
drainHist == <<handled, batch>>
exitHist == <<exitCalls, queueAtExit>>
cfgHist == <<nConfigure, configureDraws>>

vars == <<pc, dpc, should_exit, first_configure, width, height, events, tmp_events,
          pool, surface, frameCallbacks, local, canvas, rest,
          handled, batch, closedDelivered, nConfigure, trigger, configureDraws,
          exitCalls, queueAtExit>>

FreeBuffer == [st |-> "free", cleared |-> FALSE, calls |-> 0]
NoCanvas == [buf |-> NoSlot, w |-> 0, h |-> 0]
NoLocal == [buffer |-> NoSlot, width |-> 0, height |-> 0]
CleanSurface == [damage |-> <<>>, frame |-> 0, attached |-> NoSlot]

\* ---------------------------------------------------------- configuration
\* Option<T>: None is the empty sequence, Some(v) the one-element sequence
None == <<>>
Some(v) == <<v>>

\* the names Layer::from_str accepts
Layers == {"background", "bottom", "overlay", "top"}

\* bit values of the zwlr_layer_surface_v1 Anchor bitflags
AnchorBit == [top |-> 1, bottom |-> 2, left |-> 4, right |-> 8]
Edges == DOMAIN AnchorBit
BitSet(bits, b) == (bits \div b) % 2 = 1
AllAnchorBits == 15

\* Anchor::from_bits: None when a bit that is no flag is set
from_bits(bits) ==
  IF bits > AllAnchorBits THEN None ELSE Some({e \in Edges : BitSet(bits, AnchorBit[e])})

\* bits.and_then(Anchor::from_bits)
and_then_from_bits(bits) ==
  IF bits = None THEN None ELSE from_bits(bits[1])

OrZero(o) == IF o = None THEN 0 ELSE o[1]

\* impl FromLua for Margin: every side is get(..).unwrap_or_default()
margin_from_lua(t) ==
  [top |-> OrZero(t.top), right |-> OrZero(t.right),
   bottom |-> OrZero(t.bottom), left |-> OrZero(t.left)]

\* Margin::default()
DefaultMargin == [top |-> 0, right |-> 0, bottom |-> 0, left |-> 0]
DefaultExclusiveZone == 0 - 1

NoOpts == [width |-> 0, height |-> 0, exclusive_zone |-> 0, layer |-> "",
           anchor |-> None, margin |-> DefaultMargin, namespace |-> None]
NoRequest == [created |-> FALSE]

\* mutant: the required fields are checked in the order layer, height, width
from_lua_layer_first(t) ==
  IF t.layer = None THEN [ok |-> FALSE, msg |-> "a window must have a set layer", value |-> NoOpts]
  ELSE IF t.layer[1] \notin Layers THEN [ok |-> FALSE, msg |-> "unexpected layer type", value |-> NoOpts]
  ELSE IF t.height = None THEN [ok |-> FALSE, msg |-> "a window must have a set height", value |-> NoOpts]
  ELSE IF t.width = None THEN [ok |-> FALSE, msg |-> "a window must have a set width", value |-> NoOpts]
  ELSE [ok |-> TRUE, msg |-> "",
        value |-> [width |-> t.width[1], height |-> t.height[1], layer |-> t.layer[1],
                   anchor |-> and_then_from_bits(t.anchor), namespace |-> t.namespace,
                   margin |-> IF t.margin = None THEN DefaultMargin ELSE margin_from_lua(t.margin[1]),
                   exclusive_zone |-> IF t.exclusive_zone = None THEN DefaultExclusiveZone
                                      ELSE t.exclusive_zone[1]]]

\* impl FromLua for Opts, for a table t: the message of the panic, or the Opts.
\* The struct literal is evaluated in the order it is written.
from_lua(t) ==
  IF t.width = None THEN [ok |-> FALSE, msg |-> "a window must have a set width", value |-> NoOpts]
  ELSE IF t.height = None THEN [ok |-> FALSE, msg |-> "a window must have a set height", value |-> NoOpts]
  ELSE IF t.layer = None THEN [ok |-> FALSE, msg |-> "a window must have a set layer", value |-> NoOpts]
  ELSE IF t.layer[1] \notin Layers THEN [ok |-> FALSE, msg |-> "unexpected layer type", value |-> NoOpts]
  ELSE [ok |-> TRUE, msg |-> "",
        value |-> [width |-> t.width[1], height |-> t.height[1], layer |-> t.layer[1],
                   anchor |-> and_then_from_bits(t.anchor), namespace |-> t.namespace,
                   margin |-> IF t.margin = None THEN DefaultMargin ELSE margin_from_lua(t.margin[1]),
                   exclusive_zone |-> IF t.exclusive_zone = None THEN DefaultExclusiveZone
                                      ELSE t.exclusive_zone[1]]]

\* the requests new() makes on the layer surface, up to the first commit
SurfaceRequest(o) ==
  [created |-> TRUE, layer |-> o.layer, namespace |-> o.namespace,
   anchor |-> o.anchor,          \* set_anchor is called only for Some(a)
   margin |-> o.margin, keyboard_interactivity |-> "OnDemand",
   size |-> <<o.width, o.height>>, exclusive_zone |-> o.exclusive_zone,
   committed |-> TRUE]

\* the table the script of the running session returns
RunConf ==
  [width |-> Some(1), height |-> Some(1), layer |-> Some("bottom"), anchor |-> None,
   margin |-> None, namespace |-> None, exclusive_zone |-> None, extra |-> None]

\* ------------------------------------------------------------------ input
Seats == {1, 2}
NoSeat == 0
Capabilities == {"keyboard", "pointer"}

\* the wl_surface a keyboard or pointer event targets
OwnSurface == "own"
Surfaces == {OwnSurface, "other"}

\* PointerEventKind
PointerKinds == {"Enter", "Leave", "Motion", "Press", "Release", "Axis"}
Position == <<0, 0>>
PointerEvents == [surface : Surfaces, kind : PointerKinds, position : {Position}]

\* the modifier states the compositor reports
ShiftHeld == [control |-> FALSE, shift |-> TRUE, alt |-> FALSE, meta |-> FALSE]
ModifierStates == {DefaultModifiers, ShiftHeld}

\* window::Event, the pointer variants
PointerEntered(x, y) == [type |-> "PointerEntered", x |-> x, y |-> y]
PointerLeft == [type |-> "PointerLeft"]
PointerMoved(x, y) == [type |-> "PointerMoved", x |-> x, y |-> y]
PointerButtonPressed(b, m) == [type |-> "PointerButtonPressed", button |-> b, modifiers |-> m]
PointerButtonReleased(b, m) == [type |-> "PointerButtonReleased", button |-> b, modifiers |-> m]

\* the process after main has read ./config.lua, for a script that returns one
\* of the tables confs and defines one of the sets of globals luas
InitWith(confs, luas) ==
  /\ pc = "start"
  /\ dpc = "idle"
  /\ should_exit = FALSE
  /\ first_configure = TRUE
  /\ width = 0
  /\ height = 0
  /\ events = <<>>
  /\ tmp_events = <<>>
  /\ pool = [s \in Slots |-> FreeBuffer]
  /\ surface = CleanSurface
  /\ frameCallbacks = 0
  /\ local = NoLocal
  /\ canvas = NoCanvas
  /\ lua \in luas
  /\ conf \in confs
  /\ opts = NoOpts
  /\ request = NoRequest
  /\ panicMsg = ""
  /\ seatCaps = [s \in Seats |-> {}]
  /\ keyboard = NoSeat
  /\ pointer = NoSeat
  /\ keyboard_focus = FALSE
  /\ modifiers = DefaultModifiers
  /\ liveInput = {}
  /\ reported = DefaultModifiers
  /\ apiTrace = <<>>
  /\ apiError = ""
  /\ handled = <<>>
  /\ batch = <<>>
  /\ closedDelivered = FALSE
  /\ nConfigure = 0
  /\ trigger = "none"
  /\ configureDraws = 0
  /\ exitCalls = 0
  /\ queueAtExit = <<>>

Init == InitWith({RunConf}, [opts : BOOLEAN, draw : BOOLEAN])

\* everything the startup steps leave alone
afterStart == <<dpc, should_exit, first_configure, events, tmp_events, drawState, lua, conf,
                inputState, apiState, drainHist, closedDelivered, cfgHist, trigger, exitHist>>

\* main: the script is executed, the global opts is fetched and called, and its
\* result converted to Opts; each unwrap / expect that fails ends the process
LoadConfig ==
  /\ pc = "start"
  /\ IF ~lua.opts
       THEN /\ pc' = "panic"
            /\ panicMsg' = "opts"
            /\ UNCHANGED opts
       ELSE LET r == from_lua(conf) IN
            /\ pc' = IF r.ok THEN "new" ELSE "panic"
            /\ panicMsg' = r.msg
            /\ opts' = r.value
  /\ UNCHANGED <<afterStart, width, height, request>>

\* SimpleLayer::new up to the construction of LayerState (line 147)
NewSession ==
  /\ pc = "new"
  /\ request' = SurfaceRequest(opts)
  /\ width' = opts.width
  /\ height' = opts.height
  /\ pc' = "roundtrip"
  /\ UNCHANGED <<afterStart, opts, panicMsg>>

\* Protocol callbacks run inside roundtrip() / dispatch(), one at a time.
Delivering == pc \in {"roundtrip", "dispatch"} /\ dpc = "idle"

\* ------------------------------------------------------------ event queue
Push(e) == events' = Append(events, e)
QueueHasRoom == Len(events) < MaxQueue

\* SimpleLayer::handle_event: the new value of should_exit (the other arms only print)
handle_event(event, exit_flag) ==
  IF event.type = "Exit" THEN TRUE ELSE exit_flag

\* ------------------------------------------------------------ buffer pool
\* SlotPool::create_buffer hands out a slot no live buffer occupies
AcquirableSlots == {s \in Slots : pool[s].st = "free"}

\* the draw cycle is entered by a handler calling self.draw(qh)
EnterDraw(cause) ==
  /\ dpc' = "acquire"
  /\ trigger' = cause

\* --------------------------------------------------- construction and run
\* roundtrip() returns and new() builds the SimpleLayer
RoundtripReturn ==
  /\ pc = "roundtrip" /\ dpc = "idle"
  /\ pc' = "ready"
  /\ UNCHANGED <<dpc, session, events, tmp_events, drawState, rest, drainHist,
                 closedDelivered, cfgHist, trigger, exitHist>>

\* Window::exit
Exit ==
  /\ pc = "ready"
  /\ exitCalls < MaxExitCalls
  /\ QueueHasRoom
  /\ Push(ExitEvent)
  /\ exitCalls' = exitCalls + 1
  /\ queueAtExit' = IF exitCalls = 0 THEN events ELSE queueAtExit
  /\ UNCHANGED <<pc, dpc, session, tmp_events, drawState, rest, drainHist,
                 closedDelivered, cfgHist, trigger>>

\* main calls run(): the loop is entered and blocks in event_loop.dispatch
RunEnter ==
  /\ pc = "ready"
  /\ pc' = "dispatch"
  /\ UNCHANGED <<dpc, session, events, tmp_events, drawState, rest, drainHist,
                 closedDelivered, cfgHist, trigger, exitHist>>

\* dispatch() has returned: the live queue is swapped for an empty one and the
\* for loop over the batch starts (or ends at once when the batch is empty)
Swap ==
  /\ pc = "dispatch" /\ dpc = "idle"
  /\ tmp_events' = events
  /\ events' = <<>>
  /\ batch' = events
  /\ handled' = <<>>
  /\ pc' = IF events = <<>> THEN "loop" ELSE "drain"
  /\ UNCHANGED <<dpc, session, drawState, rest, closedDelivered, cfgHist, trigger, exitHist>>

\* mutant: the loop checks should_exit only after the whole batch has been handled
HandleEventDrainsAll ==
  /\ pc = "drain"
  /\ tmp_events # <<>>
  /\ LET event == Head(tmp_events)
         flag == handle_event(event, should_exit)
     IN /\ should_exit' = flag
        /\ handled' = Append(handled, event)
        /\ tmp_events' = Tail(tmp_events)
        /\ pc' = IF Tail(tmp_events) # <<>> THEN "drain"
                 ELSE IF flag THEN "done" ELSE "loop"
  /\ UNCHANGED <<dpc, first_configure, width, height, events, drawState, rest, batch,
                 closedDelivered, cfgHist, trigger, exitHist>>

\* mutant: after each handled event the loop goes back to dispatching callbacks
HandleEventThenDispatch ==
  /\ pc = "drain"
  /\ tmp_events # <<>>
  /\ LET event == Head(tmp_events)
         flag == handle_event(event, should_exit)
     IN /\ should_exit' = flag
        /\ handled' = Append(handled, event)
        /\ tmp_events' = Tail(tmp_events)
        /\ pc' = IF flag THEN "done" ELSE "dispatch"
  /\ UNCHANGED <<dpc, first_configure, width, height, events, drawState, rest, batch,
                 closedDelivered, cfgHist, trigger, exitHist>>

\* one iteration of the for loop: handle_event, then the should_exit check
HandleEvent ==
  /\ pc = "drain"
  /\ tmp_events # <<>>
  /\ LET event == Head(tmp_events)
         flag == handle_event(event, should_exit)
     IN /\ should_exit' = flag
        /\ handled' = Append(handled, event)
        /\ tmp_events' = Tail(tmp_events)
        /\ pc' = IF flag THEN "done"
                 ELSE IF Tail(tmp_events) = <<>> THEN "loop" ELSE "drain"
  /\ UNCHANGED <<dpc, first_configure, width, height, events, drawState, rest, batch,
                 closedDelivered, cfgHist, trigger, exitHist>>

\* the for loop has ended without a return: back to the top of loop { .. }, where the
\* next iteration blocks in event_loop.dispatch
LoopBack ==
  /\ pc = "loop"
  /\ pc' = "dispatch"
  /\ handled' = <<>>
  /\ batch' = <<>>
  /\ UNCHANGED <<dpc, session, events, tmp_events, drawState, rest, closedDelivered,
                 cfgHist, trigger, exitHist>>

\* ------------------------------------------------------ protocol callbacks
\* mutant: the proposed size is stored without the fallback
OrDefaultIdentity(v) == v

\* NonZeroU32::new(v).map_or(256, NonZeroU32::get)
OrDefault(v) == IF v = 0 THEN DefaultSize ELSE v

\* mutant: every configure draws, first_configure is not consulted
ConfigureAlwaysDraws(w, h) ==
  /\ Delivering
  /\ nConfigure < MaxConfigures
  /\ AcquirableSlots # {}
  /\ width' = OrDefault(w)
  /\ height' = OrDefault(h)
  /\ nConfigure' = nConfigure + 1
  /\ first_configure' = FALSE
  /\ EnterDraw("configure")
  /\ configureDraws' = configureDraws + 1
  /\ UNCHANGED <<pc, should_exit, events, tmp_events, drawState, rest, drainHist,
                 closedDelivered, exitHist>>

\* LayerShellHandler::configure
Configure(w, h) ==
  /\ Delivering
  /\ nConfigure < MaxConfigures
  /\ width' = OrDefault(w)
  /\ height' = OrDefault(h)
  /\ nConfigure' = nConfigure + 1
  /\ IF first_configure
       THEN /\ first_configure' = FALSE
            /\ EnterDraw("configure")
            /\ configureDraws' = configureDraws + 1
       ELSE UNCHANGED <<first_configure, dpc, trigger, configureDraws>>
  /\ UNCHANGED <<pc, should_exit, events, tmp_events, drawState, rest, drainHist,
                 closedDelivered, exitHist>>

\* CompositorHandler::frame: the compositor answers a frame request
Frame ==
  /\ Delivering
  /\ frameCallbacks > 0
  /\ AcquirableSlots # {}
  /\ frameCallbacks' = frameCallbacks - 1
  /\ EnterDraw("frame")
  /\ UNCHANGED <<pc, session, events, tmp_events, pool, surface, local, canvas, rest,
                 drainHist, closedDelivered, cfgHist, exitHist>>

\* mutant: closed() only sets the flag and enqueues nothing
ClosedSetsFlagOnly ==
  /\ Delivering
  /\ should_exit' = TRUE
  /\ closedDelivered' = TRUE
  /\ UNCHANGED <<pc, dpc, first_configure, width, height, events, tmp_events, drawState,
                 rest, drainHist, cfgHist, trigger, exitHist>>

\* LayerShellHandler::closed
Closed ==
  /\ Delivering
  /\ QueueHasRoom
  /\ Push(ExitEvent)
  /\ should_exit' = TRUE
  /\ closedDelivered' = TRUE
  /\ UNCHANGED <<pc, dpc, first_configure, width, height, tmp_events, drawState, rest,
                 drainHist, cfgHist, trigger, exitHist>>

\* KeyboardHandler::press_key
PressKey(k) ==
  /\ Delivering
  /\ QueueHasRoom
  /\ Push(KeyboardKeyPressed(k))
  /\ UNCHANGED <<pc, dpc, session, tmp_events, drawState, rest, drainHist,
                 closedDelivered, cfgHist, trigger, exitHist>>

\* KeyboardHandler::release_key
ReleaseKey(k) ==
  /\ Delivering
  /\ QueueHasRoom
  /\ Push(KeyboardKeyReleased(k))
  /\ UNCHANGED <<pc, dpc, session, tmp_events, drawState, rest, drainHist,
                 closedDelivered, cfgHist, trigger, exitHist>>

\* what the seat, keyboard and pointer handlers leave alone, the queue aside
notInput == <<pc, dpc, session, tmp_events, drawState, lua, confState, apiState, drainHist,
              closedDelivered, cfgHist, trigger, exitHist>>

\* mutant: new_capability without the is_none() tests
new_capability_unchecked(seat, capability) ==
  /\ keyboard' = IF capability = "keyboard" THEN seat ELSE keyboard
  /\ pointer' = IF capability = "pointer" THEN seat ELSE pointer
  /\ liveInput' = liveInput \cup {<<capability, seat>>}

\* SeatHandler::new_capability, the body
new_capability(seat, capability) ==
  LET makeKeyboard == capability = "keyboard" /\ keyboard = NoSeat
      makePointer == capability = "pointer" /\ pointer = NoSeat
  IN /\ keyboard' = IF makeKeyboard THEN seat ELSE keyboard
     /\ pointer' = IF makePointer THEN seat ELSE pointer
     /\ liveInput' = liveInput \cup (IF makeKeyboard THEN {<<"keyboard", seat>>} ELSE {})
                               \cup (IF makePointer THEN {<<"pointer", seat>>} ELSE {})

\* SeatHandler::remove_capability, the body: the seat argument is not used
remove_capability(seat, capability) ==
  LET dropKeyboard == capability = "keyboard" /\ keyboard # NoSeat
      dropPointer == capability = "pointer" /\ pointer # NoSeat
  IN /\ keyboard' = IF dropKeyboard THEN NoSeat ELSE keyboard
     /\ pointer' = IF dropPointer THEN NoSeat ELSE pointer
     /\ liveInput' = (liveInput \ (IF dropKeyboard THEN {<<"keyboard", keyboard>>} ELSE {}))
                               \ (IF dropPointer THEN {<<"pointer", pointer>>} ELSE {})

\* a seat gains a capability and the notification is delivered
NewCapability(seat, capability) ==
  /\ Delivering
  /\ capability \notin seatCaps[seat]
  /\ seatCaps' = [seatCaps EXCEPT ![seat] = @ \cup {capability}]
  /\ new_capability(seat, capability)
  /\ UNCHANGED <<notInput, events, keyboard_focus, modifiers, reported>>

\* a seat loses a capability and the notification is delivered
RemoveCapability(seat, capability) ==
  /\ Delivering
  /\ capability \in seatCaps[seat]
  /\ seatCaps' = [seatCaps EXCEPT ![seat] = @ \ {capability}]
  /\ remove_capability(seat, capability)
  /\ UNCHANGED <<notInput, events, keyboard_focus, modifiers, reported>>

\* KeyboardHandler::enter
KeyboardEnter(s) ==
  /\ Delivering
  /\ keyboard # NoSeat
  /\ keyboard_focus' = IF s = OwnSurface THEN TRUE ELSE keyboard_focus
  /\ UNCHANGED <<notInput, events, seatCaps, keyboard, pointer, modifiers, liveInput, reported>>

\* KeyboardHandler::leave
KeyboardLeave(s) ==
  /\ Delivering
  /\ keyboard # NoSeat
  /\ keyboard_focus' = IF s = OwnSurface THEN FALSE ELSE keyboard_focus
  /\ UNCHANGED <<notInput, events, seatCaps, keyboard, pointer, modifiers, liveInput, reported>>

\* KeyboardHandler::update_modifiers: the reported state is printed, nothing is stored
UpdateModifiers(m) ==
  /\ Delivering
  /\ keyboard # NoSeat
  /\ reported' = m
  /\ UNCHANGED <<notInput, events, seatCaps, keyboard, pointer, keyboard_focus, modifiers,
                 liveInput>>

\* mutant: pointer_frame without the test of the event's surface
RECURSIVE pointer_frame_any_surface(_, _)
pointer_frame_any_surface(evs, mods) ==
  IF evs = <<>> THEN <<>>
  ELSE LET event == Head(evs)
           pushed == CASE event.kind = "Enter" ->
                            <<PointerEntered(event.position[1], event.position[2])>>
                       [] event.kind = "Leave" -> <<PointerLeft>>
                       [] event.kind = "Motion" ->
                            <<PointerMoved(event.position[1], event.position[2])>>
                       [] event.kind = "Press" -> <<PointerButtonPressed(event, mods)>>
                       [] event.kind = "Release" -> <<PointerButtonReleased(event, mods)>>
                       [] OTHER -> <<>>
       IN pushed \o pointer_frame_any_surface(Tail(evs), mods)

\* PointerHandler::pointer_frame: the Events the for loop pushes, in order
RECURSIVE pointer_frame(_, _)
pointer_frame(evs, mods) ==
  IF evs = <<>> THEN <<>>
  ELSE LET event == Head(evs)
           pushed == IF event.surface # OwnSurface THEN <<>>
                     ELSE CASE event.kind = "Enter" ->
                                 <<PointerEntered(event.position[1], event.position[2])>>
                            [] event.kind = "Leave" -> <<PointerLeft>>
                            [] event.kind = "Motion" ->
                                 <<PointerMoved(event.position[1], event.position[2])>>
                            [] event.kind = "Press" -> <<PointerButtonPressed(event, mods)>>
                            [] event.kind = "Release" -> <<PointerButtonReleased(event, mods)>>
                            [] OTHER -> <<>>
       IN pushed \o pointer_frame(Tail(evs), mods)

\* the frames a pointer delivers
Frames == UNION {[1..n -> PointerEvents] : n \in 1..MaxFrameLen}

\* one wl_pointer frame is delivered to pointer_frame
PointerFrame(evs) ==
  /\ Delivering
  /\ pointer # NoSeat
  /\ Len(events) + Len(evs) <= MaxQueue
  /\ events' = events \o pointer_frame(evs, modifiers)
  /\ UNCHANGED <<notInput, inputState>>

\* wl_buffer.release, handled by the shm delegate: the slot is free again
BufferRelease(s) ==
  /\ Delivering
  /\ pool[s].st = "held"
  /\ pool' = [pool EXCEPT ![s] = FreeBuffer]
  /\ UNCHANGED <<pc, dpc, session, events, tmp_events, surface, frameCallbacks, local,
                 canvas, rest, drainHist, closedDelivered, cfgHist, trigger, exitHist>>

\* ------------------------------------------------------- LayerState::draw
Drawing(at) == pc \in {"roundtrip", "dispatch"} /\ dpc = at
noDrawEffect == <<pc, session, events, tmp_events, rest, drainHist, closedDelivered,
                  cfgHist, trigger, exitHist>>

\* let width/height = self.width/height; pool.create_buffer(width, height, stride, ..)
DrawAcquire ==
  /\ Drawing("acquire")
  /\ \E s \in AcquirableSlots :
       /\ pool' = [pool EXCEPT ![s] =
                     [st |-> "acquired", cleared |-> FALSE, calls |-> 0]]
       /\ local' = [buffer |-> s, width |-> width, height |-> height]
  /\ dpc' = "canvas"
  /\ UNCHANGED <<surface, frameCallbacks, canvas>>
  /\ UNCHANGED noDrawEffect

\* ------------------------------------------------- renderer::skia_cpu::Canvas
\* A Canvas value: the buffer it wraps, its size, the current path (a sequence of
\* segments), the paint, and what has been drawn onto the pixels since the last
\* clear (a record per drawing call, with the paint and path it was made with).
Origin == <<0, 0>>
ScriptPoint == <<1, 1>>
Styles == {"fill", "stroke"}

\* Canvas::new: default path, paint black / anti-aliased / stroke width 1.0 (the
\* style of Paint::default() is Fill), pixels cleared to white
CanvasNew(b, w, h) ==
  [buf |-> b, w |-> w, h |-> h, path |-> <<>>,
   paint |-> [colour |-> "black", style |-> "fill", stroke_width |-> 1, anti_alias |-> TRUE],
   pixels |-> <<[op |-> "clear", colour |-> "white"]>>]

clear(c, colour) == [c EXCEPT !.pixels = <<[op |-> "clear", colour |-> colour]>>]

\* draw_line, draw_rect, draw_circle, draw_text, draw_image: drawn with the paint
Painted(c, shape) == [c EXCEPT !.pixels = Append(@, [op |-> shape, paint |-> c.paint])]

\* surface.canvas().draw_path(&self.path, &self.paint): an empty path leaves no mark
draw_path(c) ==
  IF c.path = <<>> THEN c
  ELSE [c EXCEPT !.pixels = Append(@, [op |-> "path", path |-> c.path, paint |-> c.paint])]

set_paint_colour(c, colour) == [c EXCEPT !.paint.colour = colour]
set_paint_style(c, style) == [c EXCEPT !.paint.style = style]
set_stroke_width(c, w) == [c EXCEPT !.paint.stroke_width = w]

draw_path_stroke(c) == draw_path(set_paint_style(c, "stroke"))
draw_path_fill(c) == draw_path(set_paint_style(c, "fill"))

\* Path::cubic_to / line_to: an empty path first gets a move to (0, 0)
Extended(path, seg) ==
  (IF path = <<>> THEN <<[seg |-> "move", to |-> Origin]>> ELSE path) \o <<seg>>
path_line_to(c, to) == [c EXCEPT !.path = Extended(@, [seg |-> "line", to |-> to])]
path_bezier_curve_to(c, to) == [c EXCEPT !.path = Extended(@, [seg |-> "cubic", to |-> to])]

\* path_begin: the old path is drawn with the current paint, then replaced
path_begin(c) == [draw_path(c) EXCEPT !.path = <<>>]
path_begin_from(c, point) ==
  [path_begin(c) EXCEPT !.path = <<[seg |-> "move", to |-> point]>>]

\* mutant: draw_fps without the two statements that put width 1.0 and Fill back
draw_fps_no_restore(c) ==
  LET box == Painted(set_paint_colour(c, "yellow"), "rect")
      outline == Painted(set_paint_style(set_stroke_width(set_paint_colour(box, "black"), 2),
                                         "stroke"), "rect")
  IN Painted(outline, "text")

\* draw_fps: a yellow box, its black outline of width 2.0, then width 1.0 and Fill
\* are restored and the text is drawn
draw_fps(c) ==
  LET box == Painted(set_paint_colour(c, "yellow"), "rect")
      outline == Painted(set_paint_style(set_stroke_width(set_paint_colour(box, "black"), 2),
                                         "stroke"), "rect")
      restored == set_paint_style(set_stroke_width(outline, 1), "fill")
  IN Painted(restored, "text")

\* what a call of a registered method with well-formed arguments can make of the
\* canvas (set_paint_style is called with either style)
Effects(m, c) ==
  CASE m = "clear" -> {clear(c, "red")}
    [] m = "draw_rect" -> {Painted(c, "rect")}
    [] m = "draw_circle" -> {Painted(c, "circle")}
    [] m = "draw_line" -> {Painted(c, "line")}
    [] m = "draw_text" -> {Painted(c, "text")}
    [] m = "draw_image" -> {Painted(c, "image")}
    [] m = "draw_path_stroke" -> {draw_path_stroke(c)}
    [] m = "draw_path_fill" -> {draw_path_fill(c)}
    [] m = "set_paint_colour" -> {set_paint_colour(c, "red")}
    [] m = "set_paint_style" -> {set_paint_style(c, style) : style \in Styles}
    [] m = "set_stroke_width" -> {set_stroke_width(c, 3)}
    [] m = "path_bezier_curve_to" -> {path_bezier_curve_to(c, ScriptPoint)}
    [] m = "path_begin_from" -> {path_begin_from(c, ScriptPoint)}

\* Canvas::new over canvas_data, canvas.clear(0xFF707070), canvas.draw_fps(..)
DrawCanvas ==
  /\ Drawing("canvas")
  /\ canvas' = draw_fps(clear(CanvasNew(local.buffer, local.width, local.height), "grey"))
  /\ pool' = [pool EXCEPT ![local.buffer].cleared = TRUE]
  /\ dpc' = "script"
  /\ UNCHANGED <<surface, frameCallbacks, local>>
  /\ UNCHANGED noDrawEffect

\* g.get("draw").unwrap() when the script defines no draw: the process panics
DrawScriptMissing ==
  /\ Drawing("script")
  /\ ~lua.draw
  /\ pc' = "panic"
  /\ UNCHANGED <<dpc, session, events, tmp_events, rest, drainHist, closedDelivered,
                 cfgHist, trigger, exitHist, pool, surface, frameCallbacks, local, canvas>>

\* lua.scope(|scope| d.call(canvas)).unwrap() when the script raises an error
DrawScriptFails ==
  /\ Drawing("script")
  /\ lua.draw
  /\ pool' = [pool EXCEPT ![canvas.buf].calls = @ + 1]
  /\ pc' = "panic"
  /\ UNCHANGED <<dpc, session, events, tmp_events, rest, drainHist, closedDelivered,
                 cfgHist, trigger, exitHist, surface, frameCallbacks, local, canvas>>

\* mutant: the Canvas outlives the block and is still alive when the buffer is submitted
DrawScriptKeepsCanvas ==
  /\ Drawing("script")
  /\ lua.draw
  /\ pool' = [pool EXCEPT ![canvas.buf].calls = @ + 1]
  /\ dpc' = "damage"
  /\ UNCHANGED <<surface, frameCallbacks, local, canvas>>
  /\ UNCHANGED noDrawEffect

\* mutant: the draw cycle does not call the script
DrawScriptSkipped ==
  /\ Drawing("script")
  /\ lua.draw
  /\ canvas' = NoCanvas
  /\ dpc' = "damage"
  /\ UNCHANGED <<pool, surface, frameCallbacks, local>>
  /\ UNCHANGED noDrawEffect

\* lua.scope(|scope| d.call(canvas)): the callback draws on the canvas; the canvas is
\* dropped at the end of the block
DrawScript ==
  /\ Drawing("script")
  /\ lua.draw
  /\ pool' = [pool EXCEPT ![canvas.buf].calls = @ + 1]
  /\ canvas' = NoCanvas
  /\ dpc' = "damage"
  /\ UNCHANGED <<surface, frameCallbacks, local>>
  /\ UNCHANGED noDrawEffect

\* the methods add_methods registers on the Canvas userdata
RegisteredMethods ==
  {"clear", "draw_rect", "draw_circle", "draw_line", "draw_text", "draw_image",
   "draw_path_stroke", "draw_path_fill", "set_paint_colour", "set_paint_style",
   "set_stroke_width", "path_bezier_curve_to", "path_begin_from"}

\* the method names a draw callback calls on its canvas handle
ScriptMethods == RegisteredMethods \cup {"path_line_to"}

\* the running draw callback calls canvas:m(..): a registered method runs; any other
\* name is nil on the userdata, the call raises a Lua error and the unwrap on the
\* scope's result panics
ScriptCall(m) ==
  /\ Drawing("script")
  /\ lua.draw
  /\ Len(apiTrace) < MaxCalls
  /\ IF m \in RegisteredMethods
       THEN /\ apiTrace' = Append(apiTrace, m)
            /\ \E c \in Effects(m, canvas) : canvas' = c
            /\ UNCHANGED <<pc, apiError>>
       ELSE /\ apiError' = m
            /\ pc' = "panic"
            /\ UNCHANGED <<apiTrace, canvas>>
  /\ UNCHANGED <<dpc, session, events, tmp_events, pool, surface, frameCallbacks, local,
                 lua, confState, inputState, drainHist, closedDelivered, cfgHist, trigger,
                 exitHist>>

\* the running draw callback calls canvas:set_paint_style(s) with a string that is
\* neither "fill" nor "stroke": the closure panics
ScriptCallUnknownStyle ==
  /\ Drawing("script")
  /\ lua.draw
  /\ Len(apiTrace) < MaxCalls
  /\ apiTrace' = Append(apiTrace, "set_paint_style")
  /\ pc' = "panic"
  /\ UNCHANGED <<dpc, session, events, tmp_events, drawState, lua, confState, inputState,
                 apiError, drainHist, closedDelivered, cfgHist, trigger, exitHist>>

\* mutant: the damage rectangle is given as (0, 0, height, width)
DrawDamageSwapped ==
  /\ Drawing("damage")
  /\ surface' = [surface EXCEPT !.damage = <<0, 0, local.height, local.width>>]
  /\ dpc' = "frame"
  /\ UNCHANGED <<pool, frameCallbacks, local, canvas>>
  /\ UNCHANGED noDrawEffect

\* wl_surface.damage_buffer(0, 0, width, height)
DrawDamage ==
  /\ Drawing("damage")
  /\ surface' = [surface EXCEPT !.damage = <<0, 0, local.width, local.height>>]
  /\ dpc' = "frame"
  /\ UNCHANGED <<pool, frameCallbacks, local, canvas>>
  /\ UNCHANGED noDrawEffect

\* mutant: two frame callbacks are requested per cycle
DrawRequestFrameTwice ==
  /\ Drawing("frame")
  /\ surface' = [surface EXCEPT !.frame = @ + 2]
  /\ dpc' = "attach"
  /\ UNCHANGED <<pool, frameCallbacks, local, canvas>>
  /\ UNCHANGED noDrawEffect

\* wl_surface.frame(qh, ..): request the next frame callback
DrawRequestFrame ==
  /\ Drawing("frame")
  /\ surface' = [surface EXCEPT !.frame = @ + 1]
  /\ dpc' = "attach"
  /\ UNCHANGED <<pool, frameCallbacks, local, canvas>>
  /\ UNCHANGED noDrawEffect

\* buffer.attach_to(wl_surface)
DrawAttach ==
  /\ Drawing("attach")
  /\ surface' = [surface EXCEPT !.attached = local.buffer]
  /\ dpc' = "commit"
  /\ UNCHANGED <<pool, frameCallbacks, local, canvas>>
  /\ UNCHANGED noDrawEffect

\* mutant: the commit does not carry the buffer (commit issued before the attach)
DrawCommitBeforeAttach ==
  /\ Drawing("commit")
  /\ frameCallbacks' = frameCallbacks + surface.frame
  /\ surface' = CleanSurface
  /\ local' = NoLocal
  /\ dpc' = "idle"
  /\ UNCHANGED <<pool, canvas>>
  /\ UNCHANGED noDrawEffect

\* self.layer.commit(): the pending surface state takes effect, the attached buffer
\* belongs to the compositor until it releases it; draw returns
DrawCommit ==
  /\ Drawing("commit")
  /\ pool' = IF surface.attached = NoSlot THEN pool
             ELSE [pool EXCEPT ![surface.attached].st = "held"]
  /\ frameCallbacks' = frameCallbacks + surface.frame
  /\ surface' = CleanSurface
  /\ local' = NoLocal
  /\ dpc' = "idle"
  /\ UNCHANGED canvas
  /\ UNCHANGED noDrawEffect

Draw ==
  \/ DrawAcquire
  \/ DrawCanvas
  \/ DrawScriptMissing
  \/ DrawScriptFails
  \/ DrawScript
  \/ DrawDamage
  \/ DrawRequestFrame
  \/ DrawAttach
  \/ DrawCommit

Next ==
  \/ LoadConfig
  \/ NewSession
  \/ RoundtripReturn
  \/ Exit
  \/ RunEnter
  \/ Swap
  \/ HandleEvent
  \/ LoopBack
  \/ \E w \in Sizes, h \in Sizes : Configure(w, h)
  \/ Frame
  \/ Closed
  \/ \E k \in Keys : PressKey(k)
  \/ \E k \in Keys : ReleaseKey(k)
  \/ \E s \in Slots : BufferRelease(s)
  \/ Draw

Spec == Init /\ [][Next]_vars

\* configuration extraction alone: the script returns any of the tables ConfTables
ConfTables ==
  [width : {None, Some(1)},
   height : {None, Some(2)},
   layer : {None, Some("bottom"), Some("top"), Some("sideways")},
   anchor : {None} \cup {Some(b) : b \in 0..MaxAnchor},
   margin : {None, Some([top |-> Some(3), right |-> None, bottom |-> None, left |-> Some(4)])},
   namespace : {None, Some("bar")},
   exclusive_zone : {None, Some(30)},
   extra : {None, Some(7)}]

InitOpts == InitWith(ConfTables, {[opts |-> TRUE, draw |-> TRUE]})

NextOpts ==
  \/ LoadConfig
  \/ NewSession

SpecOpts == InitOpts /\ [][NextOpts]_vars

\* the draw callback at work: configure and frame notifications during the roundtrip
InitCanvas == InitWith({RunConf}, [opts : {TRUE}, draw : BOOLEAN])

NextCanvas ==
  \/ LoadConfig
  \/ NewSession
  \/ \E w \in Sizes, h \in Sizes : Configure(w, h)
  \/ Frame
  \/ \E s \in Slots : BufferRelease(s)
  \/ Draw
  \/ \E m \in ScriptMethods : ScriptCall(m)
  \/ ScriptCallUnknownStyle

SpecCanvas == InitCanvas /\ [][NextCanvas]_vars

\* the draw callback at work on a surface whose size stays as first configured
NextPaint ==
  \/ LoadConfig
  \/ NewSession
  \/ Configure(1, 1)
  \/ Frame
  \/ \E s \in Slots : BufferRelease(s)
  \/ Draw
  \/ \E m \in ScriptMethods : ScriptCall(m)
  \/ ScriptCallUnknownStyle

SpecPaint == InitCanvas /\ [][NextPaint]_vars

\* the input handlers alone with the run loop: one seat, no drawing
InitInput == InitWith({RunConf}, {[opts |-> TRUE, draw |-> TRUE]})

NextInput ==
  \/ LoadConfig
  \/ NewSession
  \/ RoundtripReturn
  \/ RunEnter
  \/ Swap
  \/ HandleEvent
  \/ LoopBack
  \/ \E c \in Capabilities : NewCapability(1, c)
  \/ \E c \in Capabilities : RemoveCapability(1, c)
  \/ \E s \in Surfaces : KeyboardEnter(s)
  \/ \E s \in Surfaces : KeyboardLeave(s)
  \/ \E m \in ModifierStates : UpdateModifiers(m)
  \/ keyboard # NoSeat /\ \E k \in Keys : PressKey(k)
  \/ keyboard # NoSeat /\ \E k \in Keys : ReleaseKey(k)
  \/ \E evs \in Frames : PointerFrame(evs)

SpecInput == InitInput /\ [][NextInput]_vars

\* the pointer alone with the run loop
NextPointer ==
  \/ LoadConfig
  \/ NewSession
  \/ RoundtripReturn
  \/ RunEnter
  \/ Swap
  \/ HandleEvent
  \/ LoopBack
  \/ NewCapability(1, "pointer")
  \/ RemoveCapability(1, "pointer")
  \/ \E evs \in Frames : PointerFrame(evs)

SpecPointer == InitInput /\ [][NextPointer]_vars

\* the seats alone: capabilities come and go on every seat
NextSeat ==
  \/ LoadConfig
  \/ NewSession
  \/ RoundtripReturn
  \/ RunEnter
  \/ \E seat \in Seats, c \in Capabilities : NewCapability(seat, c)
  \/ \E seat \in Seats, c \in Capabilities : RemoveCapability(seat, c)

SpecSeat == InitInput /\ [][NextSeat]_vars

TypeOK ==
  /\ pc \in {"start", "new", "roundtrip", "ready", "dispatch", "drain", "loop", "done", "panic"}
  /\ dpc \in {"idle", "acquire", "canvas", "script", "damage", "frame", "attach", "commit"}
  /\ should_exit \in BOOLEAN
  /\ first_configure \in BOOLEAN
  /\ Len(events) <= MaxQueue
  /\ frameCallbacks \in Nat

\* ------------------------------------------------------------- properties
IterationOver == pc \in {"loop", "done"}
DrawStarts == dpc = "idle" /\ dpc' # "idle"
Outstanding == {s \in Slots : pool[s].st = "acquired"}
Held == {s \in Slots : pool[s].st = "held"}

\* C1: when an iteration of run() is over (the for loop has ended or run() has
\* returned), handle_event has observed every event of the swapped-out batch, in
\* the order they were enqueued, and the live queue is empty.
C1_DrainFifoExhaustive ==
  IterationOver => (handled = batch /\ events = <<>>)

\* C2: once closed() has been delivered, no callback dispatched by run() starts a draw
\* cycle any more.
C2_NoDrawAfterClose ==
  [][(closedDelivered /\ pc = "dispatch") => ~DrawStarts]_vars

\* C3: closed() appends an Exit event and sets should_exit, and after it the run loop
\* never completes an iteration without returning: the iteration that dispatched the
\* close has a non-empty batch and leaves the for loop only through `return`.
C3_CloseReturnsSameIteration ==
  /\ [][Closed => (events' = Append(events, ExitEvent) /\ should_exit')]_vars
  /\ [](closedDelivered => should_exit)
  /\ [](closedDelivered => pc # "loop")
  /\ []((closedDelivered /\ pc \in {"roundtrip", "ready", "dispatch"})
          => \E i \in 1..Len(events) : events[i] = ExitEvent)

C3_Witness ==
  /\ closedDelivered
  /\ pc = "done"
  /\ Len(batch) = MaxQueue
  /\ batch[1] # ExitEvent
  /\ batch[Len(batch)] = ExitEvent

\* C4: after exit() the first drain makes run() return, and what handle_event observes
\* is fixed by the queue at the first call of exit() alone, whatever the number of
\* calls: the events queued before it and then a single Exit (only the first event
\* of the batch when a compositor close has set should_exit).
C4_ExitIdempotent ==
  /\ exitCalls >= 1 => pc # "loop"
  /\ (exitCalls >= 1 /\ pc = "done") =>
       /\ should_exit
       /\ handled = IF closedDelivered
                      THEN <<Head(Append(queueAtExit, ExitEvent))>>
                      ELSE Append(queueAtExit, ExitEvent)

C4_Witness ==
  /\ exitCalls = 2
  /\ pc = "done"
  /\ ~closedDelivered
  /\ batch = <<ExitEvent, ExitEvent>>
  /\ handled = <<ExitEvent>>

\* C5: the first configure notification starts a draw cycle, no later one does, and
\* every other draw cycle is started by a frame callback.
C5_OnlyFirstConfigureDraws ==
  /\ [](configureDraws = IF nConfigure >= 1 THEN 1 ELSE 0)
  /\ [][(nConfigure' # nConfigure) => (DrawStarts <=> nConfigure = 0)]_vars
  /\ [][DrawStarts => \/ trigger' = "frame" /\ nConfigure' = nConfigure
                      \/ trigger' = "configure" /\ nConfigure = 0 /\ nConfigure' = 1]_vars

C5_Witness ==
  /\ nConfigure = 2
  /\ configureDraws = 1
  /\ trigger = "frame"
  /\ dpc = "idle"
  /\ Held # {}

\* C6: after the first configure notification width > 0 and height > 0; a configure
\* sets each dimension on its own to the proposed value, or to 256 when it is zero.
C6_SizePositive ==
  /\ [](nConfigure >= 1 => (width > 0 /\ height > 0))
  /\ [][\A w \in Sizes, h \in Sizes : Configure(w, h) =>
          /\ width' = (IF w = 0 THEN 256 ELSE w)
          /\ height' = (IF h = 0 THEN 256 ELSE h)]_vars

C6_Witness ==
  /\ nConfigure = 2
  /\ width = 256
  /\ height = 1

\* C7: at most one acquired buffer is outstanding (not yet attached and committed),
\* a buffer is acquired only when none is outstanding, and a buffer is outstanding
\* only inside the draw cycle that acquired it.
C7_AcquireSubmitAlternate ==
  /\ [](Cardinality(Outstanding) <= 1)
  /\ []((Outstanding # {} /\ pc # "panic") => (dpc # "idle" /\ Outstanding = {local.buffer}))
  /\ [][(Outstanding' \ Outstanding # {}) => Outstanding = {}]_vars

C7_Witness ==
  /\ Cardinality(Outstanding) = 1
  /\ Held # {}
  /\ trigger = "frame"

\* C8: no Canvas exists over a buffer the compositor holds: the Canvas is gone before
\* the buffer is attached, and a buffer the compositor holds is not handed out by a
\* later acquire until the compositor has released it.
C8_NoWriteAfterSubmit ==
  /\ [](canvas.buf # NoSlot => pool[canvas.buf].st = "acquired")
  /\ []((surface.attached # NoSlot \/ dpc \in {"attach", "commit"}) => canvas = NoCanvas)
  /\ [][\A s \in Slots : pool[s].st = "held" => pool'[s].st \in {"held", "free"}]_vars

C8_Witness ==
  /\ canvas.buf # NoSlot
  /\ Held # {}
  /\ dpc = "script"

\* C9: every draw cycle requests exactly one frame callback, before it attaches the
\* buffer; a draw cycle other than the first consumes a callback a previous cycle
\* requested; at most one requested callback is undelivered.
C9_FrameCadence ==
  /\ [](frameCallbacks + surface.frame <= 1)
  /\ [](dpc # "idle" => frameCallbacks = 0)
  /\ []((surface.attached # NoSlot \/ dpc = "commit") => surface.frame = 1)
  /\ [][(dpc = "commit" /\ dpc' = "idle") => frameCallbacks' = 1]_vars
  /\ [][(DrawStarts /\ trigger' = "frame") => frameCallbacks' = frameCallbacks - 1]_vars

C9_Witness ==
  /\ frameCallbacks = 1
  /\ trigger = "frame"
  /\ dpc = "idle"

\* C10: in a draw cycle the script's draw callback runs exactly once, on the Canvas over
\* the buffer acquired in that cycle, after the background clear and before the damage,
\* the attach and the commit; every buffer the compositor holds has had it run once.
C10_CallbackOncePerCycle ==
  /\ \A s \in Held : pool[s].calls = 1 /\ pool[s].cleared
  /\ canvas.buf # NoSlot => (canvas.buf = local.buffer /\ pool[canvas.buf].cleared)
  /\ dpc = "script" => (canvas.buf # NoSlot /\ (pc # "panic" => pool[canvas.buf].calls = 0))
  /\ dpc \in {"acquire", "canvas", "script"} => surface = CleanSurface
  /\ dpc \in {"damage", "frame", "attach", "commit"} =>
       (pool[local.buffer].calls = 1 /\ pool[local.buffer].cleared)

C10_Witness ==
  /\ Held # {}
  /\ dpc = "commit"
  /\ trigger = "frame"
  /\ surface.attached # NoSlot

\* the session's input object of a kind: the seat it was created from, or NoSeat
InputObject(c) == IF c = "keyboard" THEN keyboard ELSE pointer
LiveOfKind(c) == {o \in liveInput : o[1] = c}
sessionInput == <<keyboard, pointer, keyboard_focus, modifiers, liveInput, events>>

\* C11: for the keyboard and for the pointer, a new_capability notification creates
\* the input object exactly when the session holds none and a remove_capability
\* notification releases it exactly when the session holds one; in the other cases
\* the notification leaves the whole input state unchanged.  The object changes in
\* no other way, so creations and releases alternate, and at most one object of a
\* kind is alive: the one the session holds.
C11_CapabilityLifecycle ==
  /\ [][\A seat \in Seats, c \in Capabilities :
          NewCapability(seat, c) =>
            IF InputObject(c) = NoSeat
              THEN /\ InputObject(c)' = seat
                   /\ liveInput' = liveInput \cup {<<c, seat>>}
                   /\ \A d \in Capabilities \ {c} : InputObject(d)' = InputObject(d)
              ELSE UNCHANGED sessionInput]_vars
  /\ [][\A seat \in Seats, c \in Capabilities :
          RemoveCapability(seat, c) =>
            IF InputObject(c) # NoSeat
              THEN /\ InputObject(c)' = NoSeat
                   /\ liveInput' = liveInput \ {<<c, InputObject(c)>>}
                   /\ \A d \in Capabilities \ {c} : InputObject(d)' = InputObject(d)
              ELSE UNCHANGED sessionInput]_vars
  /\ [][\A c \in Capabilities :
          InputObject(c)' # InputObject(c) =>
            \E seat \in Seats : NewCapability(seat, c) \/ RemoveCapability(seat, c)]_vars
  /\ [](\A c \in Capabilities :
          /\ Cardinality(LiveOfKind(c)) <= 1
          /\ LiveOfKind(c) = IF InputObject(c) = NoSeat THEN {} ELSE {<<c, InputObject(c)>>})

\* C11 witness: the keyboard was created and released again while seat 1 still has
\* the capability, and the pointer of seat 2 is held while seat 1 has one too (its
\* notification was the no-op)
C11_Witness ==
  /\ keyboard = NoSeat /\ "keyboard" \in seatCaps[1]
  /\ pointer = 2 /\ "pointer" \in seatCaps[1]

\* the Event a pointer event of each reported kind is turned into
EventOfKind ==
  [Enter |-> "PointerEntered", Leave |-> "PointerLeft", Motion |-> "PointerMoved",
   Press |-> "PointerButtonPressed", Release |-> "PointerButtonReleased"]
OnOwnSurface(e) == e.surface = OwnSurface /\ e.kind \in DOMAIN EventOfKind
Appended == SubSeq(events', Len(events) + 1, Len(events'))

\* C12: a pointer frame appends to the queue one Event for each of its enter, leave,
\* motion, press and release events that targets the session's own surface, of the
\* matching kind and in the order of the frame, and nothing for the events that
\* target another surface; what was queued before stays in place.
C12_PointerOwnSurfaceOnly ==
  [][\A evs \in Frames :
       PointerFrame(evs) =>
         LET own == SelectSeq(evs, OnOwnSurface)
         IN /\ SubSeq(events', 1, Len(events)) = events
            /\ Len(Appended) = Len(own)
            /\ \A i \in 1..Len(own) : Appended[i].type = EventOfKind[own[i].kind]
            /\ (\A i \in 1..Len(evs) : evs[i].surface # OwnSurface) => events' = events]_vars

\* C12 witness: a press and then a leave on the own surface have been queued by the
\* pointer handler during a dispatch
C12_Witness ==
  /\ pc = "dispatch" /\ pointer # NoSeat
  /\ Len(events) = 2
  /\ events[1].type = "PointerButtonPressed" /\ events[2].type = "PointerLeft"

\* C13: a key press or release delivered while the keyboard focus is not on the
\* session's own surface (keyboard_focus is false) appends nothing to the queue.
C13_NoKeyEventWithoutFocus ==
  [][\A k \in Keys :
       ((PressKey(k) \/ ReleaseKey(k)) /\ ~keyboard_focus) => events' = events]_vars

\* the Events that carry modifiers
WithModifiers == {"PointerButtonPressed", "PointerButtonReleased",
                  "KeyboardKeyPressed", "KeyboardKeyReleased"}

\* C14: every pointer-button or keyboard-key Event appended to the queue carries the
\* modifier state that update_modifiers reported last.
C14_ModifiersAsReported ==
  [][\A i \in (Len(events) + 1)..Len(events') :
       events'[i].type \in WithModifiers => events'[i].modifiers = reported]_vars

Loaded == pc # "start"
Complete(t) == t.width # None /\ t.height # None /\ t.layer # None /\ t.layer[1] \in Layers

\* C15: once the configuration has been extracted, an absent width, else an absent
\* height, else an absent layer has ended the process with the message that names
\* that field; a table with width, height and a known layer has succeeded, and the
\* Opts are the ones the same table without its unknown field gives.
C15_RequiredFieldsNamed ==
  Loaded =>
    /\ conf.width = None =>
         (pc = "panic" /\ panicMsg = "a window must have a set width")
    /\ (conf.width # None /\ conf.height = None) =>
         (pc = "panic" /\ panicMsg = "a window must have a set height")
    /\ (conf.width # None /\ conf.height # None /\ conf.layer = None) =>
         (pc = "panic" /\ panicMsg = "a window must have a set layer")
    /\ Complete(conf) =>
         /\ pc # "panic" /\ panicMsg = ""
         /\ opts = from_lua([conf EXCEPT !.extra = None]).value
         /\ opts.width = conf.width[1] /\ opts.height = conf.height[1]
         /\ opts.layer = conf.layer[1]

\* C15 witness: a table with an unknown field and a width but neither height nor
\* layer has been rejected
C15_Witness ==
  /\ pc = "panic" /\ panicMsg = "a window must have a set height"
  /\ conf.width # None /\ conf.height = None /\ conf.layer = None /\ conf.extra # None

EdgesOfBits(bits) == {e \in Edges : BitSet(bits, AnchorBit[e])}

\* C16: on the surface new() has created, the anchor is the set of edges whose bits
\* are set in the table's anchor bitmask, and absent when the table has no anchor;
\* exclusive_zone is -1, every margin side 0 and namespace none when the table does
\* not give them; and the surface was requested with exactly these values.
C16_AnchorAndDefaults ==
  request.created =>
    /\ opts.anchor = IF conf.anchor = None THEN None ELSE Some(EdgesOfBits(conf.anchor[1]))
    /\ conf.exclusive_zone = None => opts.exclusive_zone = 0 - 1
    /\ conf.margin = None => \A side \in DOMAIN opts.margin : opts.margin[side] = 0
    /\ conf.margin # None =>
         \A side \in DOMAIN opts.margin :
           opts.margin[side] = IF conf.margin[1][side] = None THEN 0 ELSE conf.margin[1][side][1]
    /\ conf.namespace = None => opts.namespace = None
    /\ request.anchor = opts.anchor
    /\ request.exclusive_zone = opts.exclusive_zone
    /\ request.margin = opts.margin
    /\ request.namespace = opts.namespace

\* C17: while the script lacks the draw entry point or the configuration entry
\* point, no layer surface has been created and committed and the process is still
\* at startup, before SimpleLayer::new has run, or has aborted there.
C17_MissingEntryPointFatalAtStartup ==
  (~lua.draw \/ ~lua.opts) => (~request.created /\ pc \in {"start", "new", "panic"})

\* the Canvas API surface of the external interface
ApiSurface ==
  {"clear", "draw_rect", "draw_circle", "draw_line", "draw_text", "draw_image",
   "path_begin_from", "path_line_to", "path_bezier_curve_to", "draw_path_stroke",
   "draw_path_fill", "set_paint_colour", "set_paint_style", "set_stroke_width"}

\* C18: a call of any method of the Canvas API surface on the handle passed to the
\* draw callback is carried out: it raises no error and does not end the process.
C18_ApiSurfaceCallable ==
  [][\A m \in ApiSurface :
       ScriptCall(m) => (apiTrace' = Append(apiTrace, m) /\ apiError' = "" /\ pc' # "panic")]_vars

\* a protocol callback, or a step of the draw cycle a callback started
Callback ==
  \/ \E w \in Sizes, h \in Sizes : Configure(w, h)
  \/ Frame
  \/ Closed
  \/ \E k \in Keys : PressKey(k) \/ ReleaseKey(k)
  \/ \E s \in Slots : BufferRelease(s)
  \/ Draw

\* C19: callbacks run only inside roundtrip() and dispatch(), and while they can run
\* no event of the current iteration of run() has been swapped out or handled; the
\* queue is swapped out once, when dispatch() has returned, and from then until the
\* iteration ends the only steps are handle_event calls, which run only then.
C19_DrainAfterCallbacks ==
  /\ [](pc \in {"roundtrip", "ready", "dispatch"} =>
          (handled = <<>> /\ batch = <<>> /\ tmp_events = <<>>))
  /\ [][Callback => (pc \in {"roundtrip", "dispatch"} /\ pc' \in {pc, "panic"}
                     /\ UNCHANGED <<tmp_events, handled, batch>>)]_vars
  /\ [][Swap => (pc = "dispatch" /\ pc' \in {"drain", "loop"}
                 /\ tmp_events' = events /\ events' = <<>>)]_vars
  /\ [][pc = "drain" => (HandleEvent /\ pc' \in {"drain", "loop", "done"}
                         /\ events' = events)]_vars
  /\ [][handled' # handled => (HandleEvent \/ LoopBack)]_vars

\* C19 witness: two callbacks of one poll cycle queued an event each and the loop has
\* handled both after the dispatch returned
C19_Witness ==
  /\ pc = "loop" /\ exitCalls = 0
  /\ Len(handled) = 2 /\ handled = batch

\* C21: a draw cycle starts only when a configure notification has been received,
\* and none starts from a callback run() dispatches once the session is closing
\* (should_exit is set).
C21_DrawOnlyWhileRunning ==
  [][DrawStarts => /\ nConfigure' >= 1 /\ ~first_configure'
                   /\ pc = "dispatch" => ~should_exit]_vars

\* C22: in a draw cycle the buffer is acquired with the session's width and height,
\* which no configure changes while the cycle runs, the Canvas over it and the damage
\* rectangle use the same two values, and the session's size is what the last
\* configure notification set.
C22_OneSizePerCycle ==
  /\ [](dpc \notin {"idle", "acquire"} =>
          (local.buffer # NoSlot /\ local.width = width /\ local.height = height))
  /\ [](canvas.buf # NoSlot =>
          (canvas.buf = local.buffer /\ canvas.w = local.width /\ canvas.h = local.height))
  /\ [](dpc \in {"frame", "attach", "commit"} =>
          surface.damage = <<0, 0, local.width, local.height>>)
  /\ [](dpc # "idle" => nConfigure >= 1)
  /\ [][\A w \in Sizes, h \in Sizes :
          Configure(w, h) => (dpc = "idle" /\ width' = OrDefault(w) /\ height' = OrDefault(h))]_vars
  /\ [][(width' # width \/ height' # height) =>
          (NewSession \/ \E w \in Sizes, h \in Sizes : Configure(w, h))]_vars

\* C22 witness: a frame callback after a second configure draws with the new size,
\* which differs in width and height
C22_Witness ==
  /\ dpc = "commit" /\ trigger = "frame" /\ nConfigure = 2
  /\ local.width = DefaultSize /\ local.height = 1
  /\ surface.damage = <<0, 0, DefaultSize, 1>>

\* C23: should_exit is never reset; a handle_event call made while it is set is the
\* last one, run() returns right after it, and the events behind it in the batch stay
\* unhandled for good.
C23_FlagIsFinal ==
  /\ [][should_exit => should_exit']_vars
  /\ [][(HandleEvent /\ should_exit) => pc' = "done"]_vars
  /\ []((should_exit /\ pc = "drain") => handled = <<>>)
  /\ [](should_exit => pc # "loop")
  /\ [](pc = "done" => (should_exit /\ batch = handled \o tmp_events))
  /\ [][pc = "done" => UNCHANGED <<pc, handled, tmp_events>>]_vars

\* C23 witness: close was delivered after a key press; the loop handled the key
\* press, returned, and the Exit event behind it was dropped
C23_Witness ==
  /\ pc = "done" /\ closedDelivered
  /\ Len(handled) = 1 /\ handled[1].type = "KeyboardKeyPressed"
  /\ tmp_events = <<ExitEvent>>

\* C26: a remove_capability notification for a seat other than the one the keyboard
\* (pointer) object was created from leaves the object in place.
C26_ReleaseOnlyForOwnSeat ==
  [][\A seat \in Seats, c \in Capabilities :
       (RemoveCapability(seat, c) /\ InputObject(c) \notin {NoSeat, seat}) =>
         (InputObject(c)' = InputObject(c) /\ liveInput' = liveInput)]_vars

\* the paint a draw callback finds
FreshPaint == [colour |-> "black", style |-> "fill", stroke_width |-> 1, anti_alias |-> TRUE]

\* C24: in every draw cycle the Canvas handed to the draw callback has an empty path
\* and the paint black, fill, stroke width 1.0, anti-aliased, whatever the callbacks
\* of earlier cycles did to their canvases.
C24_FreshCanvasPerCycle ==
  [][DrawCanvas => (canvas'.path = <<>> /\ canvas'.paint = FreshPaint)]_vars

\* C24 witness: the callback of an earlier cycle changed colour and path, and the
\* cycle a frame callback started has reached the call of the draw callback
C24_Witness ==
  /\ dpc = "script" /\ trigger = "frame"
  /\ apiTrace = <<"set_paint_colour", "path_bezier_curve_to">>
  /\ canvas.path = <<>> /\ canvas.paint = FreshPaint

\* C25: path_begin_from(x, y) leaves the path with the single point (x, y) and leaves
\* the pixels and the paint as they were.
C25_PathBeginFromOnlyPath ==
  [][ScriptCall("path_begin_from") =>
       /\ canvas'.path = <<[seg |-> "move", to |-> ScriptPoint]>>
       /\ canvas'.pixels = canvas.pixels
       /\ canvas'.paint = canvas.paint]_vars

====
